---- MODULE Spec2Model ----
(***************************************************************************)
(* Model of pyodata/v2/model.py: the process-wide type repository (Types), *)
(* the declaration records and the three-pass Schema.from_etree.           *)
(*                                                                         *)
(* Type names are token sequences.  The tokens are the collection          *)
(* decorator in some letter case ("Collection(", "collection(", ...), the  *)
(* closing ")" and bare names ("Edm.String", "A"), which hold no           *)
(* parenthesis.  'Collection({})'.format(n) is then                        *)
(* <<"Collection(">> \o n \o <<")">>, and name[11:-1] drops the first and  *)
(* the last token.                                                         *)
(*                                                                         *)
(* Objects are records carrying the class, the site that created them and  *)
(* a sequence number of that site, which together stand for the Python     *)
(* object identity.                                                        *)
(***************************************************************************)
EXTENDS Integers, Sequences, FiniteSets, TLC

VARIABLES
    Types,        \* Types.Types: [isNone, tab, gen]; gen counts runs of the seeding body
    userTyps,     \* number of Typ objects created by callers of register_type
    lastResult,   \* outcome of the last public operation
    pc,           \* position of Schema.from_etree: idle, types, sets, funcs, annots, done, failed
    nodes,        \* schema_nodes: the Namespace attribute of each Schema element, in order
    node,         \* index of the schema node the current loop is at
    builds,       \* number of Schema.from_etree calls started in this process
    decls,        \* schema._decls: namespace -> Declaration
    etypes,       \* EntityType objects of the current build, by id
    nextEtype,    \* number of EntityType objects created in this process
    esets,        \* EntitySet objects of the current build, by id
    vhs,          \* ValueHelper objects of the current build, by id
    threads       \* frames: the call each thread is in (operation, arguments, line);
                  \* gil: the thread that holds the interpreter lock; switches: the
                  \* number of times the lock was taken from a thread inside a call

\* ---------------------------------------------------------------- bounds

MaxUserTyps == 2
MaxBuilds == 2
MaxNodes == 2
MaxProps == 2
MaxEntityTypes == 2
MaxEntitySets == 1
MaxFunctionImports == 1
MaxParams == 1
MaxValueHelpers == 1
MaxChars == 2
MaxInt == 12
MaxWire == 3
MaxSwitches == 2

\* ---------------------------------------------------------------- names

CollectionDecorators == {"Collection(", "collection(", "COLLECTION("}

\* 'Collection({})'.format(name)
CollectionName(name) == <<"Collection(">> \o name \o <<")">>

\* name.lower().startswith('collection(') and name.endswith(')')
IsCollectionName(name) ==
    /\ Len(name) >= 2
    /\ name[1] \in CollectionDecorators
    /\ name[Len(name)] = ")"

\* name[11:-1]
StripCollection(name) == SubSeq(name, 2, Len(name) - 1)

\* the sixteen primitives of _build_types, in registration order, with traits
PrimitiveTypes == <<
    [name |-> <<"Null">>,               traits |-> "TypTraits"],
    [name |-> <<"Edm.Binary">>,         traits |-> "TypTraits"],
    [name |-> <<"Edm.Boolean">>,        traits |-> "EdmBooleanTypTraits"],
    [name |-> <<"Edm.Byte">>,           traits |-> "TypTraits"],
    [name |-> <<"Edm.DateTime">>,       traits |-> "TypTraits"],
    [name |-> <<"Edm.Decimal">>,        traits |-> "TypTraits"],
    [name |-> <<"Edm.Double">>,         traits |-> "TypTraits"],
    [name |-> <<"Edm.Single">>,         traits |-> "TypTraits"],
    [name |-> <<"Edm.Guid">>,           traits |-> "EdmPrefixedTypTraits"],
    [name |-> <<"Edm.Int16">>,          traits |-> "EdmIntTypTraits"],
    [name |-> <<"Edm.Int32">>,          traits |-> "EdmIntTypTraits"],
    [name |-> <<"Edm.Int64">>,          traits |-> "EdmIntTypTraits"],
    [name |-> <<"Edm.SByte">>,          traits |-> "TypTraits"],
    [name |-> <<"Edm.String">>,         traits |-> "EdmStringTypTraits"],
    [name |-> <<"Edm.Time">>,           traits |-> "TypTraits"],
    [name |-> <<"Edm.DateTimeOffset">>, traits |-> "TypTraits"] >>

PrimitiveNames == {PrimitiveTypes[i].name : i \in DOMAIN PrimitiveTypes}

\* ---------------------------------------------------------------- objects

\* the absent object (None)
NoTyp == [cls |-> "None"]

\* Typ(name, null_value, traits): an instance created at `site` as its id-th object
Typ(site, id, name, traits) ==
    [cls |-> "Typ", site |-> site, id |-> id, name |-> name, traits |-> traits]

\* Collection(name, item_type): keeps the item's name as its own name
Collection(name, item_type) ==
    [cls |-> "Collection", name |-> name, item_type |-> item_type]

\* ---------------------------------------------------------------- Types

Put(f, k, v) == [x \in (DOMAIN f) \cup {k} |-> IF x = k THEN v ELSE f[x]]

\* Types.Types = None
TypesNone == [isNone |-> TRUE, tab |-> <<>>, gen |-> 0]

\* register_type that leaves the collection variant out
RegisterInsertNoCollection(R, typ) ==
    [R EXCEPT !.tab = IF typ.name \notin DOMAIN R.tab
                      THEN Put(R.tab, typ.name, typ) ELSE R.tab]

\* register_type where the last registration of a name wins
RegisterInsertLastWins(R, typ) ==
    [R EXCEPT !.tab = Put(Put(R.tab, typ.name, typ),
                          CollectionName(typ.name), Collection(typ.name, typ))]

\* the body of register_type after the lazy creation: lines 80-88
RegisterInsert(R, typ) ==
    LET t1 == IF typ.name \notin DOMAIN R.tab
              THEN Put(R.tab, typ.name, typ) ELSE R.tab
        collection_name == CollectionName(typ.name)
        t2 == IF collection_name \notin DOMAIN t1
              THEN Put(t1, collection_name, Collection(typ.name, typ)) ELSE t1
    IN  [R EXCEPT !.tab = t2]

RECURSIVE RegisterPrimitives(_, _)
\* lines 55-70: register_type on each primitive, Types.Types being a dict by now
RegisterPrimitives(R, i) ==
    IF i > Len(PrimitiveTypes) THEN R
    ELSE RegisterPrimitives(
             RegisterInsert(R, Typ("_build_types", R.gen,
                                   PrimitiveTypes[i].name, PrimitiveTypes[i].traits)),
             i + 1)

\* Types._build_types
BuildTypes(R) ==
    IF R.isNone
    THEN RegisterPrimitives([isNone |-> FALSE, tab |-> <<>>, gen |-> R.gen + 1], 1)
    ELSE R

\* register_type that inserts the type before it seeds the primitives
RegisterTypeSeedLate(R, typ) ==
    IF R.isNone
    THEN RegisterPrimitives(
             RegisterInsert([isNone |-> FALSE, tab |-> <<>>, gen |-> R.gen + 1], typ), 1)
    ELSE RegisterInsert(R, typ)

\* Types.register_type
RegisterType(R, typ) ==
    RegisterInsert(IF R.isNone THEN BuildTypes(R) ELSE R, typ)

\* an absent attribute: node.get(...) gave None instead of a name
NoName == <<>>

\* Types.from_name after the lazy creation, lines 97-111, on the registry R1
\* (None has no lower(): line 100 raises AttributeError)
FromNameIn(R1, name) ==
    LET is_collection == IsCollectionName(name)
        name1 == IF is_collection THEN StripCollection(name) ELSE name
        search_name == IF is_collection THEN CollectionName(name1) ELSE name
    IN  IF name = NoName
        THEN [types |-> R1, exc |-> "AttributeError", value |-> NoTyp,
              reported |-> <<>>]
        ELSE IF search_name \notin DOMAIN R1.tab
        THEN [types |-> R1, exc |-> "PyODataException", value |-> NoTyp,
              reported |-> name1]
        ELSE [types |-> R1, exc |-> "None", value |-> R1.tab[search_name],
              reported |-> <<>>]

\* Types.from_name: the registry after the call and the outcome
FromName(R, name) == FromNameIn(IF R.isNone THEN BuildTypes(R) ELSE R, name)

\* the key from_name looks for, lines 97-103
SearchName(name) ==
    IF IsCollectionName(name) THEN CollectionName(StripCollection(name)) ELSE name

\* the threads of the process that use the repository
Threads == {"t1", "t2"}

\* a thread that has called nothing yet.  op and at are the operation the
\* thread called and the line it is about to execute; name and typ are the
\* arguments; seeding tells that the thread is inside _build_types, registering
\* the i-th primitive, the objects of which carry gen; cur is the argument of
\* the register_type call the thread is in; ret is the line after the call of
\* _build_types; exc and value are the outcome of the operation
NoFrame ==
    [op |-> "none", at |-> "start", name |-> <<>>, typ |-> NoTyp, cur |-> NoTyp,
     seeding |-> FALSE, i |-> 0, gen |-> 0, ret |-> "", exc |-> "None",
     value |-> NoTyp]

\* the Typ that _build_types creates for its i-th register_type call
PrimitiveOf(gen, i) ==
    Typ("_build_types", gen, PrimitiveTypes[i].name, PrimitiveTypes[i].traits)

\* the return of register_type: to the next line of _build_types, to the
\* caller of _build_types after its last line, or to the caller of the thread
ReturnFromRegisterType(f) ==
    IF ~f.seeding THEN [f EXCEPT !.at = "done"]
    ELSE IF f.i < Len(PrimitiveTypes)
    THEN [f EXCEPT !.i = f.i + 1, !.cur = PrimitiveOf(f.gen, f.i + 1),
                   !.at = "register_type:76"]
    ELSE [f EXCEPT !.seeding = FALSE, !.cur = f.typ, !.at = f.ret]

\* ---------------------------------------------------------------- records

\* None, for a string-valued attribute or reference
None == "None"

\* names that hold a '/'
SlashedNames == {"x/p"}

\* '/' in name
HasSlash(name) == name \in SlashedNames

\* a reference to the EntityTypeProperty `name` of the EntityType object `etype`
PropRef(etype, name) == [etype |-> etype, name |-> name]
NoProp == PropRef(0, None)

\* the EntityType object `id` seen as a Typ (lines 580-597)
EntityTypeHandle(id, name) ==
    [cls |-> "EntityType", site |-> "EntityType.from_etree", id |-> id,
     name |-> <<name>>, traits |-> "EdmComplexTypTraits"]

\* an attribute value is the sequence of its characters; node.get() of an absent
\* attribute gives None, which the model writes as the empty sequence too, the
\* code below treating None and '' alike
NoText == <<>>

\* bool(x) of a str or None
Truthy(text) == text # NoText

\* str.upper() on the letters the attribute values are made of
UpperChar(c) ==
    CASE c = "m" -> "M" [] c = "a" -> "A" [] c = "x" -> "X" [] OTHER -> c

Upper(text) == [i \in DOMAIN text |-> UpperChar(text[i])]

\* the decimal digits
DigitValue ==
    [c \in {"0", "1", "2", "3", "4", "5", "6", "7", "8", "9"} |->
        CASE c = "0" -> 0 [] c = "1" -> 1 [] c = "2" -> 2 [] c = "3" -> 3
          [] c = "4" -> 4 [] c = "5" -> 5 [] c = "6" -> 6 [] c = "7" -> 7
          [] c = "8" -> 8 [] c = "9" -> 9]

RECURSIVE DigitsValue(_, _, _)
\* the number written by the digits text[i..], acc being the number so far
DigitsValue(text, i, acc) ==
    IF i > Len(text) THEN acc
    ELSE DigitsValue(text, i + 1, 10 * acc + DigitValue[text[i]])

RECURSIVE LStrip(_, _)
\* str.lstrip(chars)
LStrip(text, chars) ==
    IF text # <<>> /\ text[1] \in chars THEN LStrip(Tail(text), chars) ELSE text

RECURSIVE RStrip(_, _)
\* str.rstrip(chars)
RStrip(text, chars) ==
    IF text # <<>> /\ text[Len(text)] \in chars
    THEN RStrip(SubSeq(text, 1, Len(text) - 1), chars) ELSE text

\* str.strip(chars)
Strip(text, chars) == LStrip(RStrip(text, chars), chars)

\* the digits of int(text): the text without the blanks around it and its sign
Unsigned(text) ==
    IF text # <<>> /\ text[1] \in {"-", "+"} THEN Tail(text) ELSE text

\* int(text): blanks around it are ignored, then an optional sign and at least
\* one digit, ValueError otherwise
IntOfStripped(text) ==
    IF Unsigned(text) = <<>>
           \/ \E i \in DOMAIN Unsigned(text) : Unsigned(text)[i] \notin DOMAIN DigitValue
    THEN [exc |-> "ValueError", value |-> 0]
    ELSE [exc |-> "None",
          value |-> IF text[1] = "-" THEN 0 - DigitsValue(Unsigned(text), 1, 0)
                    ELSE DigitsValue(Unsigned(text), 1, 0)]

\* the whitespace characters of the texts
Whitespace == {" ", "\n"}

\* int(text)
IntOf(text) == IntOfStripped(Strip(text, Whitespace))

\* VariableDeclaration.MAXIMUM_LENGTH
MAXIMUM_LENGTH == -1

\* a max_length: None or an int
NoLength == [kind |-> "None"]
Length(n) == [kind |-> "int", value |-> n]

\* VariableDeclaration.__init__, lines 324-329: self._max_length
MaxLengthOf(max_length) ==
    IF ~Truthy(max_length) THEN [exc |-> "None", value |-> NoLength]
    ELSE IF Upper(max_length) = <<"M", "A", "X">>
    THEN [exc |-> "None", value |-> Length(MAXIMUM_LENGTH)]
    ELSE [exc |-> IntOf(max_length).exc, value |-> Length(IntOf(max_length).value)]

\* EntityTypeProperty.__init__ with the typ found by VariableDeclaration.__init__
NewProperty(frag, typ) ==
    [name |-> frag.name, typ |-> typ, nullable |-> Truthy(frag.nullable),
     max_length |-> MaxLengthOf(frag.max_length).value,
     entity_type |-> 0, value_helper |-> 0,
     text_proprty_name |-> frag.text, text_proprty |-> NoProp]

RECURSIVE LoadProperties(_, _, _, _)
\* loading of a Property child where a repeated name replaces the earlier property
LoadPropertyLastWins(r, props, frags, i) ==
    IF r.exc # "None"
    THEN [types |-> r.types, exc |-> r.exc, at |-> "typ", props |-> props]
    ELSE IF MaxLengthOf(frags[i].max_length).exc # "None"
    THEN [types |-> r.types, exc |-> MaxLengthOf(frags[i].max_length).exc,
          at |-> "max_length", props |-> props]
    ELSE LoadProperties(r.types,
                        Put(props, frags[i].name, NewProperty(frags[i], r.value)),
                        frags, i + 1)

\* EntityType.from_etree, lines 560-566: the i-th edm:Property child, whose type
\* lookup gave r, and the children after it
LoadProperty(r, props, frags, i) ==
    IF r.exc # "None"
    THEN [types |-> r.types, exc |-> r.exc, at |-> "typ", props |-> props]
    ELSE IF MaxLengthOf(frags[i].max_length).exc # "None"
    THEN [types |-> r.types, exc |-> MaxLengthOf(frags[i].max_length).exc,
          at |-> "max_length", props |-> props]
    ELSE IF frags[i].name \in DOMAIN props
    THEN [types |-> r.types, exc |-> "KeyError", at |-> "duplicate", props |-> props]
    ELSE LoadProperties(r.types,
                        Put(props, frags[i].name, NewProperty(frags[i], r.value)),
                        frags, i + 1)

\* EntityType.from_etree, lines 558-566: the edm:Property children in order
LoadProperties(R, props, frags, i) ==
    IF i > Len(frags) THEN [types |-> R, exc |-> "None", at |-> "", props |-> props]
    ELSE LoadProperty(FromName(R, frags[i].type), props, frags, i)

\* an entity_type setter that leaves every unresolved sap:text name unset
SetPropEntityTypeTolerant(p, value, props) ==
    IF p.entity_type # 0 THEN [exc |-> "RuntimeError", prop |-> p]
    ELSE LET p1 == [p EXCEPT !.entity_type = value]
         IN  IF p.text_proprty_name = None THEN [exc |-> "None", prop |-> p1]
             ELSE IF p.text_proprty_name \in DOMAIN props
             THEN [exc |-> "None",
                   prop |-> [p1 EXCEPT !.text_proprty = PropRef(value, p.text_proprty_name)]]
             ELSE [exc |-> "None", prop |-> p1]

\* EntityTypeProperty.entity_type setter, on property p of an entity type
\* whose properties are props
SetPropEntityType(p, value, props) ==
    IF p.entity_type # 0 THEN [exc |-> "RuntimeError", prop |-> p]
    ELSE LET p1 == [p EXCEPT !.entity_type = value]
         IN  IF p.text_proprty_name = None THEN [exc |-> "None", prop |-> p1]
             ELSE IF p.text_proprty_name \in DOMAIN props
             THEN [exc |-> "None",
                   prop |-> [p1 EXCEPT !.text_proprty = PropRef(value, p.text_proprty_name)]]
             ELSE IF ~HasSlash(p.text_proprty_name)
             THEN [exc |-> "RuntimeError", prop |-> p1]
             ELSE [exc |-> "None", prop |-> p1]

\* EntityType.from_etree after the properties were loaded with outcome l:
\* the key (lines 569-571) and the back-references (lines 576-577)
EntityTypeOfProperties(l, id, frag) ==
    LET none == [name |-> frag.name, properties |-> <<>>, key |-> <<>>]
    IN  IF l.exc # "None"
        THEN [types |-> l.types, exc |-> l.exc, at |-> l.at, etype |-> none]
        ELSE IF \E k \in DOMAIN frag.key : frag.key[k] \notin DOMAIN l.props
        THEN [types |-> l.types, exc |-> "KeyError", at |-> "key", etype |-> none]
        ELSE LET set == [n \in DOMAIN l.props |-> SetPropEntityType(l.props[n], id, l.props)]
             IN  IF \E n \in DOMAIN set : set[n].exc # "None"
                 THEN [types |-> l.types, exc |-> "RuntimeError",
                       at |-> "entity_type.setter", etype |-> none]
                 ELSE [types |-> l.types, exc |-> "None", at |-> "",
                       etype |-> [name |-> frag.name,
                                  properties |-> [n \in DOMAIN set |-> set[n].prop],
                                  key |-> frag.key, node |-> frag]]

\* EntityType.from_etree: the object `id` built from one EntityType element
EntityTypeFromEtree(R, id, frag) ==
    EntityTypeOfProperties(LoadProperties(R, <<>>, frag.properties, 1), id, frag)

\* Schema.Declaration.__init__
EmptyDeclaration == [entity_types |-> <<>>, entity_sets |-> <<>>, function_imports |-> <<>>]

\* ---------------------------------------------------------------- traits

\* Python values: a str is the sequence of its characters, where the words
\* true, false, True, False and the prefix guid are one character each
Str(chars) == [kind |-> "str", chars |-> chars]
IntValue(n) == [kind |-> "int", n |-> n]
Bool(b) == [kind |-> "bool", b |-> b]

\* the digit characters by value
DigitChar == <<"0", "1", "2", "3", "4", "5", "6", "7", "8", "9">>

RECURSIVE Digits(_)
\* the decimal digits of n >= 0
Digits(n) ==
    IF n < 10 THEN <<DigitChar[n + 1]>>
    ELSE Digits(n \div 10) \o <<DigitChar[(n % 10) + 1]>>

\* '%d' % n
IntText(n) == IF n < 0 THEN <<"-">> \o Digits(0 - n) ELSE Digits(n)

\* '%s' % v and '{}'.format(v)
PyStr(v) ==
    CASE v.kind = "str" -> v.chars
      [] v.kind = "int" -> IntText(v.n)
      [] v.kind = "bool" -> IF v.b THEN <<"True">> ELSE <<"False">>

\* the truth value of v
PyTruth(v) ==
    CASE v.kind = "str" -> v.chars # <<>>
      [] v.kind = "int" -> v.n # 0
      [] v.kind = "bool" -> v.b

\* the outcome of a call: a value or an exception
Returns(value) == [exc |-> "None", value |-> value]
Raises(exc) == [exc |-> exc, value |-> Str(<<>>)]

\* the prefix of the one EdmPrefixedTypTraits that _build_types creates (line 63)
GuidPrefix == "guid"

\* EdmPrefixedTypTraits.to_odata
PrefixedToOdata(prefix, v) == Returns(Str(<<prefix, "'">> \o PyStr(v) \o <<"'">>))

\* from_odata of a prefixed literal that takes the text between the ends as it is
PrefixedFromOdataUnchecked(prefix, text) ==
    Returns(Str(SubSeq(text, 3, Len(text) - 1)))

\* EdmPrefixedTypTraits.from_odata: re.match("^prefix'(.*)'$", value), where
\* . matches no newline and $ matches before a newline that ends the text too
PrefixedFromOdata(prefix, text) ==
    LET body == IF text # <<>> /\ text[Len(text)] = "\n"
                THEN SubSeq(text, 1, Len(text) - 1) ELSE text
    IN  IF /\ Len(body) >= 3
           /\ body[1] = prefix /\ body[2] = "'" /\ body[Len(body)] = "'"
           /\ \A i \in 3..(Len(body) - 1) : body[i] # "\n"
        THEN Returns(Str(SubSeq(body, 3, Len(body) - 1)))
        ELSE Raises("RuntimeError")

\* EdmStringTypTraits.to_odata
StringToOdata(v) == Returns(Str(<<"'">> \o PyStr(v) \o <<"'">>))

\* EdmStringTypTraits.from_odata: value.strip('\'')
StringFromOdata(text) == Returns(Str(Strip(text, {"'"})))

\* EdmBooleanTypTraits.to_odata
BooleanToOdata(v) == Returns(Str(IF PyTruth(v) THEN <<"true">> ELSE <<"false">>))

\* EdmBooleanTypTraits.from_odata
BooleanFromOdata(text) == Returns(Bool(text = <<"true">>))

\* EdmIntTypTraits.to_odata: '%d' % (value) needs a number, and a bool is one
IntToOdata(v) ==
    CASE v.kind = "int" -> Returns(Str(IntText(v.n)))
      [] v.kind = "bool" -> Returns(Str(IntText(IF v.b THEN 1 ELSE 0)))
      [] v.kind = "str" -> Raises("TypeError")

\* EdmIntTypTraits.from_odata
IntFromOdata(text) ==
    IF IntOf(text).exc # "None" THEN Raises(IntOf(text).exc)
    ELSE Returns(IntValue(IntOf(text).value))

\* traits.to_odata(v) of the traits object of that class
ToOdata(traits, v) ==
    CASE traits = "TypTraits" -> Returns(v)
      [] traits = "EdmPrefixedTypTraits" -> PrefixedToOdata(GuidPrefix, v)
      [] traits = "EdmStringTypTraits" -> StringToOdata(v)
      [] traits = "EdmBooleanTypTraits" -> BooleanToOdata(v)
      [] traits = "EdmIntTypTraits" -> IntToOdata(v)

\* traits.from_odata(v) of the traits object of that class, v a str
FromOdata(traits, v) ==
    CASE traits = "TypTraits" -> Returns(v)
      [] traits = "EdmPrefixedTypTraits" -> PrefixedFromOdata(GuidPrefix, v.chars)
      [] traits = "EdmStringTypTraits" -> StringFromOdata(v.chars)
      [] traits = "EdmBooleanTypTraits" -> BooleanFromOdata(v.chars)
      [] traits = "EdmIntTypTraits" -> IntFromOdata(v.chars)

\* an edm_type as the serializer sees it: None, or the traits of the type of
\* each declared property (type_prop.typ.traits by type_prop.name)
NoEdmType == [isNone |-> TRUE, props |-> <<>>]
EdmType(props) == [isNone |-> FALSE, props |-> props]

\* the traits call of one property, encoding or decoding
ApplyTraits(op, traits, v) ==
    IF op = "to_odata" THEN ToOdata(traits, v) ELSE FromOdata(traits, v)

\* a serializer that gives every declared property and every key of the input
ComplexSerializeAllKeys(op, edm_type, value) ==
    IF edm_type.isNone THEN {[exc |-> "PyODataException", value |-> <<>>]}
    ELSE {[exc |-> "None",
           value |-> [n \in DOMAIN edm_type.props \cup DOMAIN value |->
                         IF n \in DOMAIN edm_type.props \cap DOMAIN value
                         THEN ApplyTraits(op, edm_type.props[n], value[n]).value
                         ELSE IF n \in DOMAIN value THEN value[n] ELSE Str(<<>>)]]}

\* EdmComplexTypeSerializer.to_odata and from_odata, lines 137-163: the outcomes
\* of the loop over edm_type.proprties(), whose order is the dict's own, so
\* that any property whose traits raise may be the first to do so
ComplexSerialize(op, edm_type, value) ==
    IF edm_type.isNone THEN {[exc |-> "PyODataException", value |-> <<>>]}
    ELSE LET keys == {n \in DOMAIN edm_type.props : n \in DOMAIN value}
             failing == {n \in keys :
                            ApplyTraits(op, edm_type.props[n], value[n]).exc # "None"}
         IN  IF failing = {}
             THEN {[exc |-> "None",
                    value |-> [n \in keys |->
                                  ApplyTraits(op, edm_type.props[n], value[n]).value]]}
             ELSE {[exc |-> ApplyTraits(op, edm_type.props[n], value[n]).exc,
                    value |-> <<>>] : n \in failing}

\* ---------------------------------------------------------------- Schema

\* entity_type that takes the type of that name from whichever namespace has one
EntityTypeInAnyNamespace(D, type_name, namespace) ==
    IF \E ns \in DOMAIN D : type_name \in DOMAIN D[ns].entity_types
    THEN [exc |-> "None",
          value |-> D[CHOOSE ns \in DOMAIN D :
                          type_name \in DOMAIN D[ns].entity_types].entity_types[type_name]]
    ELSE [exc |-> "KeyError", value |-> 0]

\* Schema.entity_type(type_name, namespace) with a namespace: lines 385-390
EntityTypeInNamespace(D, type_name, namespace) ==
    IF namespace \in DOMAIN D /\ type_name \in DOMAIN D[namespace].entity_types
    THEN [exc |-> "None", value |-> D[namespace].entity_types[type_name]]
    ELSE [exc |-> "KeyError", value |-> 0]

\* entity_set that takes the set of that name from whichever namespace has one
EntitySetInAnyNamespace(D, set_name, namespace) ==
    IF \E ns \in DOMAIN D : set_name \in DOMAIN D[ns].entity_sets
    THEN [exc |-> "None",
          value |-> D[CHOOSE ns \in DOMAIN D :
                          set_name \in DOMAIN D[ns].entity_sets].entity_sets[set_name]]
    ELSE [exc |-> "KeyError", value |-> 0]

\* Schema.entity_set(set_name, namespace) with a namespace: lines 405-410
EntitySetInNamespace(D, set_name, namespace) ==
    IF namespace \in DOMAIN D /\ set_name \in DOMAIN D[namespace].entity_sets
    THEN [exc |-> "None", value |-> D[namespace].entity_sets[set_name]]
    ELSE [exc |-> "KeyError", value |-> 0]

\* Schema.function_import(function_import, namespace) with a namespace: lines 425-430
FunctionImportInNamespace(D, function_import, namespace) ==
    IF namespace \in DOMAIN D /\ function_import \in DOMAIN D[namespace].function_imports
    THEN [exc |-> "None", value |-> D[namespace].function_imports[function_import]]
    ELSE [exc |-> "KeyError", value |-> 0]

\* Schema.entity_type(type_name) without a namespace, lines 392-398: the outcomes
\* of the scan over self._decls.values(), whose order is the dict's own
EntityTypeScan(D, type_name) ==
    IF \E ns \in DOMAIN D : type_name \in DOMAIN D[ns].entity_types
    THEN {[exc |-> "None", value |-> D[ns].entity_types[type_name]] :
              ns \in {n \in DOMAIN D : type_name \in DOMAIN D[n].entity_types}}
    ELSE {[exc |-> "KeyError", value |-> 0]}

\* Schema.entity_set(set_name) without a namespace, lines 412-418: the loop reads
\* decl.entity_set, an attribute no Declaration has (lines 354-361), and the
\* AttributeError is not the KeyError the loop catches
EntitySetScan(D, set_name) ==
    IF DOMAIN D = {} THEN {[exc |-> "KeyError", value |-> 0]}
    ELSE {[exc |-> "AttributeError", value |-> 0]}

\* Schema.function_import(function_import) without a namespace, lines 432-438
FunctionImportScan(D, function_import) ==
    IF \E ns \in DOMAIN D : function_import \in DOMAIN D[ns].function_imports
    THEN {[exc |-> "None", value |-> D[ns].function_imports[function_import]] :
              ns \in {n \in DOMAIN D : function_import \in DOMAIN D[n].function_imports}}
    ELSE {[exc |-> "KeyError", value |-> 0]}

\* EntitySet.from_etree and EntitySet.__init__: EntityType="<ns>.<name>" is split
EntitySetFromEtree(frag) ==
    [name |-> frag.name, entity_type_namespace |-> frag.et_ns,
     entity_type_name |-> frag.et_name, entity_type |-> 0]

\* an entity_type setter that accepts the value it already holds
EntitySetSetEntityTypeIfDiffers(eset, value, E) ==
    IF eset.entity_type # 0 /\ eset.entity_type # value
    THEN [exc |-> "RuntimeError", eset |-> eset]
    ELSE IF E[value].name # eset.entity_type_name
    THEN [exc |-> "RuntimeError", eset |-> eset]
    ELSE [exc |-> "None", eset |-> [eset EXCEPT !.entity_type = value]]

\* EntitySet.entity_type setter; value is an EntityType object of heap E
EntitySetSetEntityType(eset, value, E) ==
    IF eset.entity_type # 0 THEN [exc |-> "RuntimeError", eset |-> eset]
    ELSE IF E[value].name # eset.entity_type_name
    THEN [exc |-> "RuntimeError", eset |-> eset]
    ELSE [exc |-> "None", eset |-> [eset EXCEPT !.entity_type = value]]

\* an except clause catches the exceptions of its own class; PyODataException
\* is the module's own exception, raised "instead of KeyError" (lines 14, 105-109)
Catches(handler, exc) == exc = handler

\* FunctionImportParameter.__init__ with the typ found by
\* VariableDeclaration.__init__; node is the element it was built from
NewFunctionImportParameter(frag, typ) ==
    [name |-> frag.name, typ |-> typ, nullable |-> Truthy(frag.nullable),
     max_length |-> MaxLengthOf(frag.max_length).value, node |-> frag]

RECURSIVE LoadParameters(_, _, _, _)
\* FunctionImport.from_etree, lines 1137-1146: the i-th edm:Parameter child,
\* whose type lookup gave r, and the children after it
LoadParameter(r, params, frags, i) ==
    IF r.exc # "None"
    THEN [types |-> r.types, exc |-> r.exc, params |-> params]
    ELSE IF MaxLengthOf(frags[i].max_length).exc # "None"
    THEN [types |-> r.types, exc |-> MaxLengthOf(frags[i].max_length).exc,
          params |-> params]
    ELSE LoadParameters(r.types,
                        Put(params, frags[i].name,
                            NewFunctionImportParameter(frags[i], r.value)),
                        frags, i + 1)

\* FunctionImport.from_etree, lines 1134-1146: the edm:Parameter children
LoadParameters(R, params, frags, i) ==
    IF i > Len(frags) THEN [types |-> R, exc |-> "None", params |-> params]
    ELSE LoadParameter(FromName(R, frags[i].type), params, frags, i)

\* the except clause of lines 1102-1103 on the outcome r of from_name
ReturnTypeOrName(r, return_type) ==
    IF r.exc = "None" THEN [types |-> r.types, exc |-> "None", value |-> r.value]
    ELSE IF Catches("KeyError", r.exc)
    THEN [types |-> r.types, exc |-> "None",
          value |-> [cls |-> "str", name |-> return_type]]
    ELSE [types |-> r.types, exc |-> r.exc, value |-> NoTyp]

\* FunctionImport.__init__, lines 1100-1103: try from_name, except KeyError
FunctionImportReturnType(R, return_type) ==
    ReturnTypeOrName(FromName(R, return_type), return_type)

\* FunctionImport.__init__ (line 1148) on the parameters loaded with outcome l,
\* the return type resolved with outcome t
NewFunctionImport(l, t, frag) ==
    IF t.exc # "None"
    THEN [types |-> t.types, exc |-> t.exc, at |-> "return_type",
          fi |-> [name |-> frag.name, return_type |-> NoTyp, parameters |-> <<>>]]
    ELSE [types |-> t.types, exc |-> "None", at |-> "",
          fi |-> [name |-> frag.name, return_type |-> t.value,
                  parameters |-> l.params]]

\* FunctionImport.from_etree after the parameters were loaded with outcome l
FunctionImportOfParameters(l, frag) ==
    IF l.exc # "None"
    THEN [types |-> l.types, exc |-> l.exc, at |-> "parameter",
          fi |-> [name |-> frag.name, return_type |-> NoTyp, parameters |-> <<>>]]
    ELSE NewFunctionImport(l, FunctionImportReturnType(l.types, frag.return_type), frag)

\* FunctionImport.from_etree
FunctionImportFromEtree(R, frag) ==
    FunctionImportOfParameters(LoadParameters(R, <<>>, frag.parameters, 1), frag)

\* ---------------------------------------------------------------- annotations

\* ValueHelperParameter.__init__
NewParameter(frag) ==
    [local_property_name |-> frag.local, local_property |-> NoProp,
     list_property_name |-> frag.list, list_property |-> NoProp]

\* ValueHelper.from_etree and ValueHelper.__init__: Target="<ns>.<type>/<property>"
ValueHelperFromEtree(frag) ==
    [element_namespace |-> frag.ns, entity_type_name |-> frag.entity_type,
     proprty_name |-> frag.proprty, collection_path |-> frag.collection_path,
     entity_set |-> 0, proprty |-> NoProp,
     parameters |-> [i \in DOMAIN frag.parameters |-> NewParameter(frag.parameters[i])]]

\* element_namespace != schema.namespaces: a str is never equal to a list
StrDiffersFromList(str, list) == TRUE

\* line 490: if not annotation.element_namespace != schema.namespaces
SkipsAnnotation(element_namespace, namespaces) ==
    ~ StrDiffersFromList(element_namespace, namespaces)

RECURSIVE ResolveListProperties(_, _, _, _)
\* ValueHelper.entity_set setter, lines 941-947: the parameters in order, up to
\* the first that raises
ResolveListProperties(params, etype, E, i) ==
    IF i > Len(params) THEN [exc |-> "None", params |-> params]
    ELSE IF params[i].list_property_name = None
    THEN ResolveListProperties(params, etype, E, i + 1)
    ELSE IF params[i].list_property_name \notin DOMAIN E[etype].properties
    THEN [exc |-> "RuntimeError", params |-> params]
    ELSE IF params[i].list_property # NoProp
    THEN [exc |-> "RuntimeError", params |-> params]
    ELSE ResolveListProperties(
             [params EXCEPT ![i].list_property =
                                PropRef(etype, params[i].list_property_name)],
             etype, E, i + 1)

\* an entity_set setter that leaves the parameters alone
ValueHelperSetEntitySetOnly(vh, value, S, E) ==
    IF vh.entity_set # 0 THEN [exc |-> "RuntimeError", vh |-> vh]
    ELSE IF S[value].name # vh.collection_path
    THEN [exc |-> "RuntimeError", vh |-> vh]
    ELSE [exc |-> "None", vh |-> [vh EXCEPT !.entity_set = value]]

\* ValueHelper.entity_set setter; value is an EntitySet object of heap S
ValueHelperSetEntitySet(vh, value, S, E) ==
    IF vh.entity_set # 0 THEN [exc |-> "RuntimeError", vh |-> vh]
    ELSE IF S[value].name # vh.collection_path
    THEN [exc |-> "RuntimeError", vh |-> vh]
    ELSE LET r == ResolveListProperties(vh.parameters, S[value].entity_type, E, 1)
         IN  [exc |-> r.exc,
              vh |-> [vh EXCEPT !.entity_set = value, !.parameters = r.params]]

RECURSIVE ResolveLocalProperties(_, _, _, _)
\* ValueHelper.proprty setter, lines 913-919
ResolveLocalProperties(params, etype, E, i) ==
    IF i > Len(params) THEN [exc |-> "None", params |-> params]
    ELSE IF params[i].local_property_name = None
    THEN ResolveLocalProperties(params, etype, E, i + 1)
    ELSE IF params[i].local_property_name \notin DOMAIN E[etype].properties
    THEN [exc |-> "RuntimeError", params |-> params]
    ELSE IF params[i].local_property # NoProp
    THEN [exc |-> "RuntimeError", params |-> params]
    ELSE ResolveLocalProperties(
             [params EXCEPT ![i].local_property =
                                PropRef(etype, params[i].local_property_name)],
             etype, E, i + 1)

\* the EntityTypeProperty object a reference points at
Deref(E, ref) == E[ref.etype].properties[ref.name]

\* ValueHelper.proprty setter; value refers to an EntityTypeProperty of heap E
ValueHelperSetProprty(vh, value, E) ==
    IF vh.proprty # NoProp THEN [exc |-> "RuntimeError", vh |-> vh]
    ELSE IF \/ E[Deref(E, value).entity_type].name # vh.entity_type_name
            \/ Deref(E, value).name # vh.proprty_name
    THEN [exc |-> "RuntimeError", vh |-> vh]
    ELSE LET r == ResolveLocalProperties(vh.parameters, Deref(E, value).entity_type, E, 1)
         IN  [exc |-> r.exc,
              vh |-> [vh EXCEPT !.proprty = value, !.parameters = r.params]]

\* EntityTypeProperty.value_helper setter; value is a ValueHelper object
PropertySetValueHelper(p, value) ==
    IF p.value_helper # 0 THEN [exc |-> "RuntimeError", prop |-> p]
    ELSE [exc |-> "None", prop |-> [p EXCEPT !.value_helper = value]]

\* heap E with the property a reference points at replaced
WithProp(E, ref, p) == [E EXCEPT ![ref.etype].properties[ref.name] = p]

\* lines 489-516 for one annotation a with id `id`: the heaps afterwards and the outcome
AnnotationPass(D, E, S, V, id, a) ==
    LET es == EntitySetInNamespace(D, a.collection_path, a.element_namespace)
        s1 == ValueHelperSetEntitySet(a, es.value, S, E)
        et == EntityTypeInNamespace(D, a.entity_type_name, a.element_namespace)
        ref == PropRef(et.value, a.proprty_name)
        s2 == ValueHelperSetProprty(s1.vh, ref, E)
        s3 == PropertySetValueHelper(Deref(E, ref), id)
        out(exc, at, vh, heap) == [exc |-> exc, at |-> at, vhs |-> Put(V, id, vh),
                                   etypes |-> heap, skipped |-> FALSE]
    IN  IF SkipsAnnotation(a.element_namespace, DOMAIN D)
        THEN [exc |-> "None", at |-> "", vhs |-> V, etypes |-> E, skipped |-> TRUE]
        ELSE IF es.exc # "None" THEN out("RuntimeError", "entity_set", a, E)
        ELSE IF s1.exc # "None" THEN out(s1.exc, "entity_set.setter", s1.vh, E)
        ELSE IF et.exc # "None" THEN out("AttributeError", "entity_type", s1.vh, E)
        ELSE IF a.proprty_name \notin DOMAIN E[et.value].properties
        THEN out("AttributeError", "proprty", s1.vh, E)
        ELSE IF s2.exc # "None" THEN out(s2.exc, "proprty.setter", s2.vh, E)
        ELSE IF s3.exc # "None" THEN out(s3.exc, "value_helper.setter", s2.vh, E)
        ELSE out("None", "", s2.vh, WithProp(E, ref, s3.prop))

\* ---------------------------------------------------------------- inputs

\* names of the Typ objects callers hand to register_type
UserTypNames == {<<"Edm.String">>, <<"A">>, CollectionName(<<"A">>),
                 CollectionName(<<"Edm.String">>)}

\* names callers look up
LookupNames == {<<"Edm.String">>, <<"edm.string">>, <<"A">>,
                CollectionName(<<"Edm.String">>),
                <<"collection(", "Edm.String", ")">>,
                <<"COLLECTION(", "Edm.String", ")">>,
                CollectionName(<<"A">>),
                CollectionName(CollectionName(<<"Edm.String">>))}

Namespaces == {"N1", "N2"}
EntityTypeNames == {"A", "B"}
PropertyNames == {"p"}

\* the sequences over S of length at most n
SeqUpTo(S, n) == UNION {[1..k -> S] : k \in 0..n}

\* edm:Property elements: Name, Type and sap:text
PropertyFragments ==
    [name : PropertyNames, type : {<<"Edm.String">>, <<"Unknown">>},
     text : {None}, nullable : {NoText}, max_length : {NoText}]

\* edm:EntityType elements: Name, the Property children and the Key/PropertyRef names
EntityTypeFragments ==
    [name : EntityTypeNames, properties : SeqUpTo(PropertyFragments, MaxProps),
     key : {<<>>, <<"p">>}]

EntitySetNames == {"S1"}
CollectionPaths == {"S1", "S2"}

\* edm:EntitySet elements: Name and EntityType="<et_ns>.<et_name>"
EntitySetFragments ==
    [name : EntitySetNames, et_ns : Namespaces, et_name : EntityTypeNames]

\* names of function imports: F1 is declared, F2 is only looked up
FunctionImportNames == {"F1", "F2"}

\* edm:FunctionImport elements: Name, ReturnType and the Parameter children
FunctionImportFragments ==
    [name : {"F1"},
     return_type : {<<"Edm.String">>, <<"A">>, <<"Unknown">>, NoName},
     parameters : {<<>>, <<[name |-> "x", type |-> <<"Unknown">>,
                            nullable |-> NoText, max_length |-> NoText]>>}]

\* values of the MaxLength attribute: absent, MAX in three letter cases, numbers
\* and a text that is no number
MaxLengthTexts ==
    {NoText, <<"M", "A", "X">>, <<"m", "a", "x">>, <<"M", "a", "x">>,
     <<"1", "0">>, <<"0">>, <<"-", "5">>, <<"-", "1">>, <<"x">>}

\* values of the Nullable attribute
NullableTexts == {NoText, <<"true">>, <<"false">>}

\* values of the sap:text attribute: absent, the property itself, another
\* property, a name no property has, and a path into another type
TextNames == {None, "p", "q", "zz", "x/p"}

\* a Property element with no attribute but Name and Type
PlainProperty(name) ==
    [name |-> name, type |-> <<"Edm.String">>, text |-> None,
     nullable |-> NoText, max_length |-> NoText]

\* edm:Property elements p and q, p with one more attribute: sap:text, Nullable
\* or MaxLength
AttributedPropertyFragments ==
    {PlainProperty("p"), PlainProperty("q")}
        \cup {[PlainProperty("p") EXCEPT !.text = t] : t \in TextNames}
        \cup {[PlainProperty("p") EXCEPT !.nullable = n] : n \in NullableTexts}
        \cup {[PlainProperty("p") EXCEPT !.max_length = m] : m \in MaxLengthTexts}

\* edm:EntityType elements over those Property elements
AttributedEntityTypeFragments ==
    [name : {"A"}, properties : SeqUpTo(AttributedPropertyFragments, MaxProps),
     key : {<<>>}]

\* edm:Parameter elements of type Edm.String with Nullable or MaxLength
AttributedParameterFragments ==
    {[name |-> "x", type |-> <<"Edm.String">>, nullable |-> n, max_length |-> NoText] :
         n \in NullableTexts}
        \cup {[name |-> "x", type |-> <<"Edm.String">>, nullable |-> NoText,
               max_length |-> m] : m \in MaxLengthTexts}

\* edm:FunctionImport elements with one such Parameter
AttributedFunctionImportFragments ==
    [name : {"F1"}, return_type : {<<"Edm.String">>},
     parameters : {<<prm>> : prm \in AttributedParameterFragments}]

\* the traits classes
TraitsNames ==
    {"TypTraits", "EdmPrefixedTypTraits", "EdmStringTypTraits",
     "EdmBooleanTypTraits", "EdmIntTypTraits"}

\* the str values handed to to_odata: texts with letters, digits and quotes
StringValues == SeqUpTo({"a", "0", "'"}, MaxChars)

\* the values handed to to_odata
PyValues ==
    {Str(chars) : chars \in StringValues}
        \cup {IntValue(n) : n \in (0 - MaxInt)..MaxInt}
        \cup {Bool(b) : b \in BOOLEAN}

\* the texts handed to from_odata
WireChars == {"'", "a", "1", "-", " ", "guid", "true", "\n"}
WireTexts == SeqUpTo(WireChars, MaxWire)

\* the complex types handed to the serializer: None, and the types whose
\* properties are among p and q, each a string or an integer
ComplexTypes ==
    {NoEdmType} \cup
    UNION {{EdmType(props) : props \in [names -> {"EdmStringTypTraits", "EdmIntTypTraits"}]} :
               names \in SUBSET {"p", "q"}}

\* the mappings handed to the serializer: p and q, and the key z no type declares
MappingsOver(values) ==
    UNION {[keys -> values] : keys \in SUBSET {"p", "q", "z"}}

\* the Record children of a Parameters collection
ParameterFragments == [local : {None} \cup PropertyNames, list : {None} \cup PropertyNames]

\* edm:Annotation elements of the value-list term, with the Target of their group
ValueHelperFragments ==
    [ns : Namespaces, entity_type : EntityTypeNames, proprty : PropertyNames,
     collection_path : CollectionPaths,
     parameters : SeqUpTo(ParameterFragments, MaxParams)]

\* ---------------------------------------------------------------- actions

vars == <<Types, userTyps, lastResult, pc, nodes, node, builds, decls, etypes,
          nextEtype, esets, vhs, threads>>

schemaVars == <<pc, nodes, node, builds, decls, etypes, nextEtype, esets, vhs>>

Init ==
    /\ Types = TypesNone
    /\ userTyps = 0
    /\ lastResult = [op |-> "none"]
    /\ pc = "idle"
    /\ nodes = <<>>
    /\ node = 0
    /\ builds = 0
    /\ decls = <<>>
    /\ etypes = <<>>
    /\ nextEtype = 0
    /\ esets = <<>>
    /\ vhs = <<>>
    /\ threads = [frames |-> [t \in Threads |-> NoFrame], gil |-> "none", switches |-> 0]

\* no Schema.from_etree call is running
NotBuilding == pc \in {"idle", "done", "failed"}

\* a caller registers a Typ object of its own
CallRegisterType(names) ==
    \E name \in names :
        /\ NotBuilding
        /\ userTyps < MaxUserTyps
        /\ LET typ == Typ("caller", userTyps + 1, name, "TypTraits")
           IN  /\ Types' = RegisterType(Types, typ)
               /\ lastResult' = [op |-> "register_type", exc |-> "None", typ |-> typ,
                                 wasNone |-> Types.isNone]
        /\ userTyps' = userTyps + 1
        /\ UNCHANGED <<schemaVars, threads>>

\* a caller looks a name up
CallFromName(names) ==
    \E name \in names :
        LET r == FromName(Types, name)
        IN  /\ NotBuilding
            /\ Types' = r.types
            /\ lastResult' = [op |-> "from_name", exc |-> r.exc, name |-> name,
                              value |-> r.value, reported |-> r.reported,
                              wasNone |-> Types.isNone]
            /\ UNCHANGED <<userTyps, threads, schemaVars>>

\* Schema.from_etree is called: lines 447 and 454-457 for the first schema node
StartBuild(limit) ==
    \E ns \in {n \in SeqUpTo(Namespaces, MaxNodes) : n # <<>> /\ n[1] = "N1"} :
        /\ NotBuilding
        /\ builds < limit
        /\ builds' = builds + 1
        /\ nodes' = ns
        /\ node' = 1
        /\ pc' = "types"
        /\ decls' = Put(<<>>, ns[1], EmptyDeclaration)
        /\ etypes' = <<>>
        /\ esets' = <<>>
        /\ vhs' = <<>>
        /\ lastResult' = [op |-> "from_etree", exc |-> "Running"]
        /\ UNCHANGED <<Types, userTyps, threads, nextEtype>>

\* the build raises: no Schema is returned, and the objects the failed step
\* was working on are dropped with it
Raise(exc, stage, at) ==
    /\ pc' = "failed"
    /\ lastResult' = [op |-> "from_etree", exc |-> exc, stage |-> stage, at |-> at]

\* the exception that leaves the build in pass 1, with the Property children
\* of the EntityType element it was raised for
FailedEntityType(r, frag) ==
    [op |-> "from_etree", exc |-> r.exc, stage |-> "EntityType", at |-> r.at,
     properties |-> frag.properties]

\* pass 1, lines 459-466: one EntityType element of the current schema node
BuildEntityType(frags) ==
    \E frag \in frags :
        /\ pc = "types"
        /\ nextEtype < MaxEntityTypes
        /\ nextEtype' = nextEtype + 1
        /\ \E id \in {nextEtype + 1} :
           \E r \in {EntityTypeFromEtree(Types, id, frag)} :
               IF r.exc # "None"
               THEN /\ pc' = "failed"
                    /\ lastResult' = FailedEntityType(r, frag)
                    /\ Types' = r.types
                    /\ UNCHANGED <<decls, etypes>>
               ELSE /\ Types' = RegisterType(r.types, EntityTypeHandle(id, frag.name))
                    /\ etypes' = Put(etypes, id, r.etype)
                    /\ decls' = [decls EXCEPT ![nodes[node]].entity_types =
                                                  Put(@, frag.name, id)]
                    /\ UNCHANGED <<pc, lastResult>>
        /\ UNCHANGED <<userTyps, threads, nodes, node, builds, esets, vhs>>

\* one loop over the schema nodes that does all the work of a node at once
NextPositionPerNode(p, n, len) ==
    CASE p = "types"  -> [pc |-> "sets", node |-> n]
      [] p = "sets"   -> [pc |-> "funcs", node |-> n]
      [] p = "funcs"  -> [pc |-> "annots", node |-> n]
      [] p = "annots" -> IF n < len THEN [pc |-> "types", node |-> n + 1]
                         ELSE [pc |-> "done", node |-> n]

\* where from_etree goes on from position p of schema node n, of len nodes: the
\* three loops of lines 454, 469 and 486, the second with its two inner loops
NextPosition(p, n, len) ==
    CASE p = "types"  -> IF n < len THEN [pc |-> "types", node |-> n + 1]
                         ELSE [pc |-> "sets", node |-> 1]
      [] p = "sets"   -> [pc |-> "funcs", node |-> n]
      [] p = "funcs"  -> IF n < len THEN [pc |-> "sets", node |-> n + 1]
                         ELSE [pc |-> "annots", node |-> 1]
      [] p = "annots" -> IF n < len THEN [pc |-> "annots", node |-> n + 1]
                         ELSE [pc |-> "done", node |-> n]

\* the loops of from_etree move on: to the next schema node (lines 455-457 in
\* pass 1), to the next pass, or to the return of the Schema (line 518)
AdvanceLoop ==
    /\ pc \in {"types", "sets", "funcs", "annots"}
    /\ LET to == NextPosition(pc, node, Len(nodes))
       IN  /\ pc' = to.pc
           /\ node' = to.node
           /\ decls' = IF to.pc = "types"
                       THEN Put(decls, nodes[to.node], EmptyDeclaration)
                       ELSE decls
           /\ lastResult' = IF to.pc = "done"
                            THEN [op |-> "from_etree", exc |-> "None"]
                            ELSE lastResult
    /\ UNCHANGED <<Types, userTyps, threads, nodes, builds, etypes, nextEtype, esets, vhs>>

\* pass 2, lines 473-478: one EntitySet element of the current schema node
BuildEntitySet ==
    \E frag \in EntitySetFragments :
        /\ pc = "sets"
        /\ Cardinality(DOMAIN esets) < MaxEntitySets
        /\ LET id == Cardinality(DOMAIN esets) + 1
               eset == EntitySetFromEtree(frag)
               t == EntityTypeInNamespace(decls, eset.entity_type_name,
                                          eset.entity_type_namespace)
               s == EntitySetSetEntityType(eset, t.value, etypes)
           IN  IF t.exc # "None"
               THEN /\ Raise(t.exc, "EntitySet", "entity_type")
                    /\ UNCHANGED <<decls, esets>>
               ELSE IF s.exc # "None"
               THEN /\ Raise(s.exc, "EntitySet", "entity_type.setter")
                    /\ UNCHANGED <<decls, esets>>
               ELSE /\ esets' = Put(esets, id, s.eset)
                    /\ decls' = [decls EXCEPT ![nodes[node]].entity_sets =
                                                  Put(@, frag.name, id)]
                    /\ UNCHANGED <<pc, lastResult>>
        /\ UNCHANGED <<Types, userTyps, threads, nodes, node, builds, etypes, nextEtype, vhs>>

\* the FunctionImport objects the schema holds
StoredFunctionImports ==
    UNION {{<<ns, n>> : n \in DOMAIN decls[ns].function_imports} : ns \in DOMAIN decls}

\* pass 2, lines 480-483: one FunctionImport element of the current schema node
BuildFunctionImport(frags) ==
    \E frag \in frags :
        /\ pc = "funcs"
        /\ Cardinality(StoredFunctionImports) < MaxFunctionImports
        /\ \E r \in {FunctionImportFromEtree(Types, frag)} :
               /\ Types' = r.types
               /\ IF r.exc # "None"
                  THEN /\ Raise(r.exc, "FunctionImport", r.at)
                       /\ UNCHANGED decls
                  ELSE /\ decls' = [decls EXCEPT ![nodes[node]].function_imports =
                                                     Put(@, frag.name, r.fi)]
                       /\ UNCHANGED <<pc, lastResult>>
        /\ UNCHANGED <<userTyps, threads, nodes, node, builds, etypes, nextEtype, esets, vhs>>

\* the exception that leaves the build in pass 3, with the annotation it was
\* raised for and what lines 495-516 had bound by then: r is the outcome of
\* the pass for the annotation id built from frag
FailedAnnotation(r, id, frag) ==
    [op |-> "from_etree", exc |-> r.exc,
     stage |-> IF frag.ns \in DOMAIN decls THEN "Annotation"
               ELSE "Annotation of unknown namespace",
     at |-> r.at,
     element_namespace |-> frag.ns, collection_path |-> frag.collection_path,
     bound |-> [entity_set |-> r.vhs[id].entity_set # 0,
                proprty |-> r.vhs[id].proprty # NoProp,
                value_helper |-> \E e \in DOMAIN r.etypes :
                                    \E n \in DOMAIN r.etypes[e].properties :
                                        r.etypes[e].properties[n].value_helper = id]]

\* pass 3, lines 489-516: one value-list annotation of the current schema node
ProcessAnnotation ==
    \E frag \in ValueHelperFragments :
        /\ pc = "annots"
        /\ Cardinality(DOMAIN vhs) < MaxValueHelpers
        /\ \E id \in {Cardinality(DOMAIN vhs) + 1} :
           \E r \in {AnnotationPass(decls, etypes, esets, vhs, id,
                                    ValueHelperFromEtree(frag))} :
               IF r.exc # "None"
               THEN /\ pc' = "failed"
                    /\ lastResult' = FailedAnnotation(r, id, frag)
                    /\ UNCHANGED <<vhs, etypes>>
               ELSE /\ vhs' = r.vhs
                    /\ etypes' = r.etypes
                    /\ UNCHANGED <<pc, lastResult>>
        /\ UNCHANGED <<Types, userTyps, threads, nodes, node, builds, decls, nextEtype, esets>>

\* the references to the EntityTypeProperty objects of the schema
PropRefs == UNION {{PropRef(e, n) : n \in DOMAIN etypes[e].properties} : e \in DOMAIN etypes}

\* a caller assigns entity_type on an EntitySet of the returned Schema
CallSetEntityType ==
    \E e \in DOMAIN esets, t \in DOMAIN etypes :
        /\ pc = "done"
        /\ LET r == EntitySetSetEntityType(esets[e], t, etypes)
           IN  /\ esets' = [esets EXCEPT ![e] = r.eset]
               /\ lastResult' = [op |-> "EntitySet.entity_type", exc |-> r.exc,
                                 target |-> e, value |-> t]
        /\ UNCHANGED <<Types, userTyps, threads, pc, nodes, node, builds, decls, etypes,
                       nextEtype, vhs>>

\* a caller assigns entity_set on a ValueHelper of the returned Schema
CallSetEntitySet ==
    \E v \in DOMAIN vhs, e \in DOMAIN esets :
        /\ pc = "done"
        /\ LET r == ValueHelperSetEntitySet(vhs[v], e, esets, etypes)
           IN  /\ vhs' = [vhs EXCEPT ![v] = r.vh]
               /\ lastResult' = [op |-> "ValueHelper.entity_set", exc |-> r.exc,
                                 target |-> v, value |-> e]
        /\ UNCHANGED <<Types, userTyps, threads, pc, nodes, node, builds, decls, etypes,
                       nextEtype, esets>>

\* a caller assigns proprty on a ValueHelper of the returned Schema
CallSetProprty ==
    \E v \in DOMAIN vhs, ref \in PropRefs :
        /\ pc = "done"
        /\ LET r == ValueHelperSetProprty(vhs[v], ref, etypes)
           IN  /\ vhs' = [vhs EXCEPT ![v] = r.vh]
               /\ lastResult' = [op |-> "ValueHelper.proprty", exc |-> r.exc,
                                 target |-> v, value |-> ref]
        /\ UNCHANGED <<Types, userTyps, threads, pc, nodes, node, builds, decls, etypes,
                       nextEtype, esets>>

\* a caller assigns value_helper on an EntityTypeProperty of the returned Schema
CallSetValueHelper ==
    \E ref \in PropRefs, v \in DOMAIN vhs :
        /\ pc = "done"
        /\ LET r == PropertySetValueHelper(Deref(etypes, ref), v)
           IN  /\ etypes' = WithProp(etypes, ref, r.prop)
               /\ lastResult' = [op |-> "EntityTypeProperty.value_helper", exc |-> r.exc,
                                 target |-> ref, value |-> v]
        /\ UNCHANGED <<Types, userTyps, threads, pc, nodes, node, builds, decls, nextEtype,
                       esets, vhs>>

\* the result of a lookup on the returned Schema
LookupResult(op, name, namespace, r) ==
    [op |-> op, exc |-> r.exc, name |-> name, namespace |-> namespace,
     value |-> r.value]

\* a caller looks up an entity type of the returned Schema, with a namespace or
\* without (namespace=None)
CallEntityType ==
    \E name \in EntityTypeNames, namespace \in Namespaces \cup {None} :
        /\ pc = "done"
        /\ \E r \in IF namespace = None THEN EntityTypeScan(decls, name)
                     ELSE {EntityTypeInNamespace(decls, name, namespace)} :
               lastResult' = LookupResult("Schema.entity_type", name, namespace, r)
        /\ UNCHANGED <<Types, userTyps, threads, schemaVars>>

\* a caller looks up an entity set of the returned Schema
CallEntitySet ==
    \E name \in CollectionPaths, namespace \in Namespaces \cup {None} :
        /\ pc = "done"
        /\ \E r \in IF namespace = None THEN EntitySetScan(decls, name)
                     ELSE {EntitySetInNamespace(decls, name, namespace)} :
               lastResult' = LookupResult("Schema.entity_set", name, namespace, r)
        /\ UNCHANGED <<Types, userTyps, threads, schemaVars>>

\* a caller looks up a function import of the returned Schema
CallFunctionImport ==
    \E name \in FunctionImportNames, namespace \in Namespaces \cup {None} :
        /\ pc = "done"
        /\ \E r \in IF namespace = None THEN FunctionImportScan(decls, name)
                     ELSE {FunctionImportInNamespace(decls, name, namespace)} :
               lastResult' = LookupResult("Schema.function_import", name, namespace, r)
        /\ UNCHANGED <<Types, userTyps, threads, schemaVars>>

\* the thread t is inside a call
Inside(t) == t \in Threads /\ threads.frames[t].at \notin {"start", "done"}

\* the interpreter lets the thread t execute its next line: t holds the lock,
\* or nobody inside a call does, or the lock is taken from the thread that does
Runs(t) ==
    IF threads.gil = t \/ ~Inside(threads.gil) THEN TRUE
    ELSE threads.switches < MaxSwitches

\* the thread t executes the line of its frame and moves on to the frame f
Goto(t, f) ==
    /\ Runs(t)
    /\ threads' = [frames |-> [threads.frames EXCEPT ![t] = f],
                   gil |-> IF f.at = "done" THEN "none" ELSE t,
                   switches |-> IF threads.gil # t /\ Inside(threads.gil)
                                THEN threads.switches + 1 ELSE threads.switches]

\* what the steps of a thread leave alone, the repository apart
ThreadUnchanged == UNCHANGED <<userTyps, lastResult, schemaVars>>

\* a thread calls Types.from_name(name)
ThreadCallFromName(names) ==
    \E t \in Threads, name \in names :
        /\ threads.frames[t].at = "start"
        /\ Goto(t, [threads.frames[t] EXCEPT !.op = "from_name", !.name = name,
                                      !.at = "from_name:94"])
        /\ UNCHANGED Types
        /\ ThreadUnchanged

\* a thread calls Types.register_type(typ) with a Typ of its own
ThreadCallRegisterType(names) ==
    \E t \in Threads, name \in names :
        /\ threads.frames[t].at = "start"
        /\ userTyps < MaxUserTyps
        /\ userTyps' = userTyps + 1
        /\ \E typ \in {Typ("caller", userTyps + 1, name, "TypTraits")} :
               Goto(t, [threads.frames[t] EXCEPT !.op = "register_type", !.typ = typ,
                                          !.cur = typ, !.at = "register_type:76"])
        /\ UNCHANGED <<Types, lastResult, schemaVars>>

\* lines 94-95 of from_name and 76-77 of register_type:
\* if Types.Types is None: Types._build_types()
LazyCreation(op, next) ==
    \E t \in Threads :
        /\ threads.frames[t].at = op
        /\ Goto(t, IF Types.isNone
                   THEN [threads.frames[t] EXCEPT !.at = "_build_types:52", !.ret = next]
                   ELSE [threads.frames[t] EXCEPT !.at = next])
        /\ UNCHANGED Types
        /\ ThreadUnchanged

\* line 52 of _build_types: if Types.Types is None
BuildTypesTest ==
    \E t \in Threads :
        /\ threads.frames[t].at = "_build_types:52"
        /\ Goto(t, IF Types.isNone
                   THEN [threads.frames[t] EXCEPT !.at = "_build_types:53"]
                   ELSE [threads.frames[t] EXCEPT !.at = threads.frames[t].ret])
        /\ UNCHANGED Types
        /\ ThreadUnchanged

\* line 53 of _build_types, Types.Types = {}, and the call of line 55
BuildTypesAssign ==
    \E t \in Threads :
        /\ threads.frames[t].at = "_build_types:53"
        /\ Types' = [isNone |-> FALSE, tab |-> <<>>, gen |-> Types.gen + 1]
        /\ Goto(t, [threads.frames[t] EXCEPT !.seeding = TRUE, !.gen = Types.gen + 1,
                                      !.i = 1, !.cur = PrimitiveOf(Types.gen + 1, 1),
                                      !.at = "register_type:76"])
        /\ ThreadUnchanged

\* line 80 of register_type: if typ.name not in Types.Types
RegisterTypeTest ==
    \E t \in Threads :
        /\ threads.frames[t].at = "register_type:80"
        /\ Goto(t, IF threads.frames[t].cur.name \notin DOMAIN Types.tab
                   THEN [threads.frames[t] EXCEPT !.at = "register_type:81"]
                   ELSE [threads.frames[t] EXCEPT !.at = "register_type:85"])
        /\ UNCHANGED Types
        /\ ThreadUnchanged

\* line 81 of register_type: Types.Types[typ.name] = typ
RegisterTypeStore ==
    \E t \in Threads :
        /\ threads.frames[t].at = "register_type:81"
        /\ Types' = [Types EXCEPT !.tab = Put(@, threads.frames[t].cur.name, threads.frames[t].cur)]
        /\ Goto(t, [threads.frames[t] EXCEPT !.at = "register_type:85"])
        /\ ThreadUnchanged

\* lines 84-85 of register_type: if collection_name not in Types.Types, and
\* the return when it is
RegisterTypeCollectionTest ==
    \E t \in Threads :
        /\ threads.frames[t].at = "register_type:85"
        /\ Goto(t, IF CollectionName(threads.frames[t].cur.name) \notin DOMAIN Types.tab
                   THEN [threads.frames[t] EXCEPT !.at = "register_type:87"]
                   ELSE ReturnFromRegisterType(threads.frames[t]))
        /\ UNCHANGED Types
        /\ ThreadUnchanged

\* lines 86-87 of register_type: Types.Types[collection_name] = collection_typ,
\* and the return
RegisterTypeCollectionStore ==
    \E t \in Threads :
        /\ threads.frames[t].at = "register_type:87"
        /\ Types' = [Types EXCEPT !.tab =
                         Put(@, CollectionName(threads.frames[t].cur.name),
                             Collection(threads.frames[t].cur.name, threads.frames[t].cur))]
        /\ Goto(t, ReturnFromRegisterType(threads.frames[t]))
        /\ ThreadUnchanged

\* lines 108-109 of from_name: if search_name not in Types.Types: raise
FromNameTest ==
    \E t \in Threads :
        /\ threads.frames[t].at = "from_name:108"
        /\ Goto(t, IF SearchName(threads.frames[t].name) \notin DOMAIN Types.tab
                   THEN [threads.frames[t] EXCEPT !.at = "done", !.exc = "PyODataException"]
                   ELSE [threads.frames[t] EXCEPT !.at = "from_name:111"])
        /\ UNCHANGED Types
        /\ ThreadUnchanged

\* line 111 of from_name: return Types.Types[search_name]
FromNameReturn ==
    \E t \in Threads :
        /\ threads.frames[t].at = "from_name:111"
        /\ Goto(t, IF SearchName(threads.frames[t].name) \notin DOMAIN Types.tab
                   THEN [threads.frames[t] EXCEPT !.at = "done", !.exc = "KeyError"]
                   ELSE [threads.frames[t] EXCEPT !.at = "done",
                             !.value = Types.tab[SearchName(threads.frames[t].name)]])
        /\ UNCHANGED Types
        /\ ThreadUnchanged

\* the result of a traits call
TraitsResult(op, traits, input, r) ==
    [op |-> op, traits |-> traits, input |-> input, exc |-> r.exc, value |-> r.value]

\* a caller encodes a value with the traits of a primitive type
CallToOdata ==
    \E traits \in TraitsNames, v \in PyValues :
        /\ lastResult' = TraitsResult("to_odata", traits, v, ToOdata(traits, v))
        /\ UNCHANGED <<Types, userTyps, threads, schemaVars>>

\* a caller decodes a wire text with the traits of a primitive type
CallFromOdata ==
    \E traits \in TraitsNames, text \in WireTexts :
        /\ lastResult' = TraitsResult("from_odata", traits, Str(text),
                                      FromOdata(traits, Str(text)))
        /\ UNCHANGED <<Types, userTyps, threads, schemaVars>>

\* a caller encodes (op = "to_odata") or decodes (op = "from_odata") a mapping
\* with the traits of a complex type
CallComplex(op, mappings) ==
    \E edm_type \in ComplexTypes, value \in mappings :
        /\ \E r \in ComplexSerialize(op, edm_type, value) :
               lastResult' = [op |-> op, traits |-> "EdmComplexTypTraits",
                              edm_type |-> edm_type, input |-> value,
                              exc |-> r.exc, value |-> r.value]
        /\ UNCHANGED <<Types, userTyps, threads, schemaVars>>

\* one Schema.from_etree call and the use of the Schema it returns
Next ==
    \/ StartBuild(1)
    \/ BuildEntityType(EntityTypeFragments)
    \/ BuildEntitySet
    \/ BuildFunctionImport(FunctionImportFragments)
    \/ ProcessAnnotation
    \/ AdvanceLoop
    \/ CallSetEntityType
    \/ CallSetEntitySet
    \/ CallSetProprty
    \/ CallSetValueHelper

Spec == Init /\ [][Next]_vars

\* the type repository across the builds of one process: callers register
\* types of their own, documents hold entity types and function imports
NextProcess ==
    \/ CallRegisterType({<<"A">>})
    \/ StartBuild(MaxBuilds)
    \/ BuildEntityType(EntityTypeFragments)
    \/ BuildFunctionImport(FunctionImportFragments)
    \/ AdvanceLoop

SpecProcess == Init /\ [][NextProcess]_vars

\* one Schema.from_etree call and the lookups on the Schema it returns
NextLookup ==
    \/ StartBuild(1)
    \/ BuildEntityType(EntityTypeFragments)
    \/ BuildEntitySet
    \/ BuildFunctionImport(FunctionImportFragments)
    \/ AdvanceLoop
    \/ CallEntityType
    \/ CallEntitySet
    \/ CallFunctionImport

SpecLookup == Init /\ [][NextLookup]_vars

\* one Schema.from_etree call on a document whose Property and Parameter
\* elements carry the attributes sap:text, Nullable and MaxLength
NextDeclarations ==
    \/ StartBuild(1)
    \/ BuildEntityType(AttributedEntityTypeFragments)
    \/ BuildFunctionImport(AttributedFunctionImportFragments)
    \/ AdvanceLoop

SpecDeclarations == Init /\ [][NextDeclarations]_vars

\* names the threads look up and register
ThreadLookupNames == {<<"Edm.String">>, CollectionName(<<"Null">>)}
ThreadTypNames == {<<"A">>}

\* the first repository operation of each of two threads, line by line
NextThreads ==
    \/ ThreadCallFromName(ThreadLookupNames)
    \/ ThreadCallRegisterType(ThreadTypNames)
    \/ LazyCreation("from_name:94", "from_name:108")
    \/ LazyCreation("register_type:76", "register_type:80")
    \/ BuildTypesTest
    \/ BuildTypesAssign
    \/ RegisterTypeTest
    \/ RegisterTypeStore
    \/ RegisterTypeCollectionTest
    \/ RegisterTypeCollectionStore
    \/ FromNameTest
    \/ FromNameReturn

SpecThreads == Init /\ [][NextThreads]_vars

\* the traits alone: callers encode and decode values
NextTraits ==
    \/ CallToOdata
    \/ CallFromOdata
    \/ CallComplex("to_odata", MappingsOver({Str(<<"a">>), IntValue(5)}))
    \/ CallComplex("from_odata", MappingsOver({Str(<<"'", "a", "'">>), Str(<<"5">>)}))

SpecTraits == Init /\ [][NextTraits]_vars

\* the type repository alone: callers register and look up, no Schema is built
NextTypes ==
    \/ CallRegisterType(UserTypNames)
    \/ CallFromName(LookupNames)

SpecTypes == Init /\ [][NextTypes]_vars

\* ---------------------------------------------------------------- claims

\* the primitive instances one run of _build_types creates
Primitive(i) == Typ("_build_types", 1, PrimitiveTypes[i].name, PrimitiveTypes[i].traits)

\* C1 as stated: every key of the registry, the keys Collection(...) included,
\* has its own Collection(key) registered, wrapping the Typ under the key.
C1_EveryKeyHasCollection ==
    \A n \in DOMAIN Types.tab :
        /\ CollectionName(n) \in DOMAIN Types.tab
        /\ Types.tab[CollectionName(n)].cls = "Collection"
        /\ Types.tab[CollectionName(n)].item_type = Types.tab[n]

\* C1, amended: every key N that maps to a Typ whose own name is N (a type
\* registered through register_type, the primitives included; not a key
\* Collection(...) that register_type added, whose Collection is named after its
\* item) has Collection(N) registered, and Collection(N) maps to a Collection
\* whose item type is the Typ under N, unless a caller registered a Typ named
\* Collection(N) itself before N, which then keeps the key.
C1_RegisteredNameHasCollection ==
    \A n \in DOMAIN Types.tab :
        Types.tab[n].name = n =>
            /\ CollectionName(n) \in DOMAIN Types.tab
            /\ \/ /\ Types.tab[CollectionName(n)].cls = "Collection"
                  /\ Types.tab[CollectionName(n)].item_type = Types.tab[n]
               \/ /\ Types.tab[CollectionName(n)].cls = "Typ"
                  /\ Types.tab[CollectionName(n)].name = CollectionName(n)

\* C1 witness: a caller's type is registered with its collection variant, next
\* to the primitives and theirs.
C1_Witness ==
    /\ <<"A">> \in DOMAIN Types.tab
    /\ Types.tab[<<"A">>].site = "caller"
    /\ Types.tab[CollectionName(<<"A">>)] = Collection(<<"A">>, Types.tab[<<"A">>])
    /\ Types.tab[CollectionName(<<"Edm.String">>)].cls = "Collection"

\* C2: the registry is append-only and the first registration of a name wins: no
\* step removes a key or maps it to another object, and once the registry is
\* created it is never reset to None.
C2_AppendOnly ==
    [][/\ \A k \in DOMAIN Types.tab :
              k \in DOMAIN Types'.tab /\ Types'.tab[k] = Types.tab[k]
       /\ ~Types.isNone => ~Types'.isNone]_vars

\* C2 witness: register_type was called with a type whose name was taken: the
\* entry still holds the first object, an entity type of an earlier build.
C2_Witness ==
    /\ lastResult.op = "register_type"
    /\ Types.tab[lastResult.typ.name] # lastResult.typ
    /\ Types.tab[lastResult.typ.name].cls = "EntityType"

\* C3: the first registry operation, register_type or from_name, seeds the
\* sixteen primitives and their collection variants before its own insert or
\* lookup; the seeding runs once; a caller's type named like a primitive never
\* takes the primitive's place, and a lookup of a primitive never fails.
C3_SeededFirstAndOnce ==
    /\ lastResult.op # "none" =>
           /\ ~Types.isNone
           /\ Types.gen = 1
           /\ \A i \in DOMAIN PrimitiveTypes :
                  /\ PrimitiveTypes[i].name \in DOMAIN Types.tab
                  /\ Types.tab[PrimitiveTypes[i].name] = Primitive(i)
                  /\ CollectionName(PrimitiveTypes[i].name) \in DOMAIN Types.tab
                  /\ Types.tab[CollectionName(PrimitiveTypes[i].name)] =
                         Collection(PrimitiveTypes[i].name, Primitive(i))
    /\ lastResult.op = "from_name" =>
           \A i \in DOMAIN PrimitiveTypes :
               lastResult.name = PrimitiveTypes[i].name =>
                   lastResult.exc = "None" /\ lastResult.value = Primitive(i)

\* C3 witness: the very first operation registered a caller's Typ named
\* Edm.String, and the registry holds the primitive.
C3_Witness ==
    /\ lastResult.op = "register_type"
    /\ lastResult.wasNone
    /\ lastResult.typ.name = <<"Edm.String">>
    /\ Types.tab[<<"Edm.String">>].site = "_build_types"

\* the EntitySet objects the schema holds
StoredEntitySets ==
    UNION {{decls[ns].entity_sets[n] : n \in DOMAIN decls[ns].entity_sets} :
           ns \in DOMAIN decls}

\* the entity set is bound to the entity type stored under its declared
\* namespace and name
BoundAsDeclared(e) ==
    /\ esets[e].entity_type # 0
    /\ esets[e].entity_type_namespace \in DOMAIN decls
    /\ esets[e].entity_type_name \in
           DOMAIN decls[esets[e].entity_type_namespace].entity_types
    /\ esets[e].entity_type =
           decls[esets[e].entity_type_namespace].entity_types[esets[e].entity_type_name]
    /\ etypes[esets[e].entity_type].name = esets[e].entity_type_name

\* the build failed at `stage`
FailedAt(stage) ==
    /\ pc = "failed"
    /\ lastResult.op = "from_etree"
    /\ lastResult.exc \notin {"None", "Running"}
    /\ lastResult.stage = stage

\* C4: from_etree runs three passes over the whole input.  While entity types
\* are being built no entity set, function import or annotation exists; when
\* pass 2 starts every schema node has its declaration and its entity types,
\* registered; no annotation is processed before pass 3; and objects of a kind
\* are created in their own pass only.  So an entity set of an earlier namespace
\* that names an entity type of a later one is bound to it.
C4_ThreePasses ==
    /\ [](/\ pc = "types" =>
               esets = <<>> /\ StoredFunctionImports = {} /\ vhs = <<>>
          /\ pc \in {"sets", "funcs"} => vhs = <<>>
          /\ pc \in {"sets", "funcs", "annots", "done"} =>
               /\ \A i \in DOMAIN nodes : nodes[i] \in DOMAIN decls
               /\ \A ns \in DOMAIN decls : \A n \in DOMAIN decls[ns].entity_types :
                      <<n>> \in DOMAIN Types.tab
               /\ \A e \in StoredEntitySets : BoundAsDeclared(e))
    /\ [][/\ DOMAIN etypes' # DOMAIN etypes => pc = "types" \/ pc' = "types"
          /\ DOMAIN esets' # DOMAIN esets => pc = "sets" \/ pc' = "types"
          /\ DOMAIN vhs' # DOMAIN vhs => pc = "annots" \/ pc' = "types"]_vars

\* C4 witness: the Schema is returned with an entity set of the first schema
\* node bound to an entity type of the second, another namespace.
C4_Witness ==
    /\ pc = "done"
    /\ Len(nodes) = 2
    /\ nodes[1] # nodes[2]
    /\ \E n \in DOMAIN decls[nodes[1]].entity_sets :
           LET e == decls[nodes[1]].entity_sets[n]
           IN  /\ esets[e].entity_type_namespace = nodes[2]
               /\ BoundAsDeclared(e)

\* the step is the call `op` on `target`
IsCall(op, target) ==
    /\ lastResult'.op = op
    /\ lastResult'.target = target

\* C5: once a single-shot back-reference is bound, every later assignment
\* raises, equal value or not, and the reference keeps its first value.
C5_SingleShot ==
    [][pc = "done" /\ pc' = "done" =>
        /\ \A e \in DOMAIN esets :
               esets[e].entity_type # 0 =>
                   /\ esets'[e].entity_type = esets[e].entity_type
                   /\ IsCall("EntitySet.entity_type", e) =>
                          lastResult'.exc = "RuntimeError"
        /\ \A v \in DOMAIN vhs :
               /\ vhs[v].entity_set # 0 =>
                      /\ vhs'[v].entity_set = vhs[v].entity_set
                      /\ IsCall("ValueHelper.entity_set", v) =>
                             lastResult'.exc = "RuntimeError"
               /\ vhs[v].proprty # NoProp =>
                      /\ vhs'[v].proprty = vhs[v].proprty
                      /\ IsCall("ValueHelper.proprty", v) =>
                             lastResult'.exc = "RuntimeError"
        /\ \A ref \in PropRefs :
               Deref(etypes, ref).value_helper # 0 =>
                   /\ Deref(etypes', ref).value_helper = Deref(etypes, ref).value_helper
                   /\ IsCall("EntityTypeProperty.value_helper", ref) =>
                          lastResult'.exc = "RuntimeError"]_vars

\* C5 witness: a caller assigned to a bound entity set the very entity type it
\* is bound to, and the call raised.
C5_Witness ==
    /\ pc = "done"
    /\ lastResult.op = "EntitySet.entity_type"
    /\ lastResult.exc = "RuntimeError"
    /\ esets[lastResult.target].entity_type = lastResult.value

\* C6: in a returned Schema every value-help annotation is bound both ways: to
\* the entity set of its collection path in its element namespace, to the
\* property of its target, whose value_helper is the annotation; each parameter's
\* local name is resolved on the type owning the annotated property, its list
\* name on the entity set's type, and an absent name leaves the reference unset.
C6_TwoWayBinding ==
    pc = "done" =>
        \A v \in DOMAIN vhs :
            LET a == vhs[v]
                es == EntitySetInNamespace(decls, a.collection_path, a.element_namespace)
                et == EntityTypeInNamespace(decls, a.entity_type_name, a.element_namespace)
            IN  /\ es.exc = "None" /\ a.entity_set = es.value
                /\ et.exc = "None" /\ a.proprty = PropRef(et.value, a.proprty_name)
                /\ a.proprty \in PropRefs
                /\ Deref(etypes, a.proprty).value_helper = v
                /\ \A i \in DOMAIN a.parameters :
                       LET prm == a.parameters[i]
                           local == Deref(etypes, a.proprty).entity_type
                           list == esets[a.entity_set].entity_type
                       IN  /\ prm.local_property =
                                  IF prm.local_property_name = None THEN NoProp
                                  ELSE PropRef(local, prm.local_property_name)
                           /\ prm.list_property =
                                  IF prm.list_property_name = None THEN NoProp
                                  ELSE PropRef(list, prm.list_property_name)
                           /\ {prm.local_property, prm.list_property}
                                  \subseteq PropRefs \cup {NoProp}

\* C6 witness: a returned Schema with an annotation whose parameter has a local
\* and a list name, resolved on two different entity types.
C6_Witness ==
    /\ pc = "done"
    /\ \E v \in DOMAIN vhs : \E i \in DOMAIN vhs[v].parameters :
           /\ vhs[v].parameters[i].local_property # NoProp
           /\ vhs[v].parameters[i].list_property # NoProp
           /\ vhs[v].parameters[i].local_property.etype #
                  vhs[v].parameters[i].list_property.etype

\* C7: every entity set the schema holds is bound to exactly the entity type
\* stored under its declared namespace and name, so a declaration whose entity
\* type was not built is never stored; the step that finds no such type raises
\* KeyError out of the build, which stores nothing and returns no Schema.
C7_EntitySetBound ==
    /\ [](/\ \A e \in StoredEntitySets : BoundAsDeclared(e)
          /\ \A e \in DOMAIN esets : esets[e].entity_type # 0)
    /\ [][pc = "sets" /\ pc' \notin {"sets", "funcs"} =>
            /\ pc' = "failed"
            /\ lastResult' = [op |-> "from_etree", exc |-> "KeyError",
                              stage |-> "EntitySet", at |-> "entity_type"]
            /\ esets' = esets /\ decls' = decls]_vars

\* C7 witness: two namespaces declare an entity type of the same name and the
\* entity set of the first namespace is bound to the type of the second.
C7_Witness ==
    /\ Len(nodes) = 2
    /\ nodes[1] # nodes[2]
    /\ \E n \in DOMAIN decls[nodes[1]].entity_sets :
           LET e == decls[nodes[1]].entity_sets[n]
           IN  /\ esets[e].entity_type_namespace = nodes[2]
               /\ esets[e].entity_type_name \in DOMAIN decls[nodes[1]].entity_types
               /\ esets[e].entity_type =
                      decls[nodes[2]].entity_types[esets[e].entity_type_name]

\* C8 as stated: after pass 1 the registry maps the name of every entity type
\* the schema holds to that same entity type object.
C8_RegistrySharesInstance ==
    pc \in {"sets", "funcs", "annots", "done"} =>
        \A ns \in DOMAIN decls : \A n \in DOMAIN decls[ns].entity_types :
            /\ <<n>> \in DOMAIN Types.tab
            /\ Types.tab[<<n>>] = EntityTypeHandle(decls[ns].entity_types[n], n)

\* C9 as stated: an annotation whose target namespace the schema does not know
\* is skipped, so the build never fails on it.
C9_UnknownNamespaceSkipped ==
    ~FailedAt("Annotation of unknown namespace")

\* C10 as stated: no build fails because of the return type of a function import.
C10_ReturnTypeNeverFails ==
    ~(FailedAt("FunctionImport") /\ lastResult.at = "return_type")

\* the declarations of a namespace that a lookup of kind op searches
DeclaredBy(op, ns) ==
    CASE op = "Schema.entity_type" -> decls[ns].entity_types
      [] op = "Schema.entity_set" -> decls[ns].entity_sets
      [] op = "Schema.function_import" -> decls[ns].function_imports

\* C11 as stated: the three lookups of a returned Schema share one contract.
\* With a namespace the result is the declaration of that name in that
\* namespace, or KeyError; without one it is a declaration of that name of some
\* namespace whenever a namespace holds one, and KeyError otherwise.
C11_SameContract ==
    (pc = "done" /\ lastResult.op \in {"Schema.entity_type", "Schema.entity_set",
                                       "Schema.function_import"}) =>
        LET holders == {ns \in DOMAIN decls :
                            /\ lastResult.namespace \in {None, ns}
                            /\ lastResult.name \in DOMAIN DeclaredBy(lastResult.op, ns)}
        IN  IF holders = {} THEN lastResult.exc = "KeyError"
            ELSE /\ lastResult.exc = "None"
                 /\ \E ns \in holders :
                        lastResult.value = DeclaredBy(lastResult.op, ns)[lastResult.name]

\* the collection path names an entity set of the namespace
NamesEntitySet(collection_path, namespace) ==
    /\ namespace \in DOMAIN decls
    /\ collection_path \in DOMAIN decls[namespace].entity_sets

\* the build failed on a value-help annotation
FailedOnAnnotation ==
    FailedAt("Annotation") \/ FailedAt("Annotation of unknown namespace")

\* C12: a value-help annotation whose CollectionPath names no entity set of its
\* element namespace ends the build with RuntimeError at the entity set lookup,
\* before the annotation or its target property is bound; no annotation with
\* such a path is kept, and the build fails at that lookup for no other reason.
C12_UnknownEntitySetFails ==
    /\ FailedOnAnnotation =>
           /\ lastResult.at = "entity_set" <=>
                  ~NamesEntitySet(lastResult.collection_path, lastResult.element_namespace)
           /\ lastResult.at = "entity_set" =>
                  /\ lastResult.exc = "RuntimeError"
                  /\ lastResult.bound = [entity_set |-> FALSE, proprty |-> FALSE,
                                         value_helper |-> FALSE]
    /\ \A v \in DOMAIN vhs :
           NamesEntitySet(vhs[v].collection_path, vhs[v].element_namespace)

\* C12 witness: the build failed on an annotation of a known namespace whose
\* CollectionPath names no entity set there, while the schema holds a property
\* that no annotation is bound to.
C12_Witness ==
    /\ FailedAt("Annotation")
    /\ lastResult.at = "entity_set"
    /\ ~NamesEntitySet(lastResult.collection_path, lastResult.element_namespace)
    /\ PropRefs # {}
    /\ \A ref \in PropRefs : Deref(etypes, ref).value_helper = 0

\* two Property children have the same name
HasDuplicate(props) ==
    \E i, j \in DOMAIN props : i < j /\ props[i].name = props[j].name

\* the first Property child that repeats the name of an earlier one
FirstRepeat(props) ==
    CHOOSE j \in DOMAIN props :
        /\ \E i \in 1..(j - 1) : props[i].name = props[j].name
        /\ \A k \in 1..(j - 1) : ~\E i \in 1..(k - 1) : props[i].name = props[k].name

\* the property object of a Property child can be constructed: its type is
\* registered and its MaxLength is empty, MAX or a number
Constructs(prop) ==
    /\ prop.type \in DOMAIN Types.tab
    /\ MaxLengthOf(prop.max_length).exc = "None"

\* the entity types the registry holds
RegisteredEntityTypes(R) ==
    {R.tab[k] : k \in {n \in DOMAIN R.tab : R.tab[n].cls = "EntityType"}}

TraitsCall(op, traits) == lastResult.op = op /\ lastResult.traits = traits

\* the last call was a call of the traits of a complex type that has its type
ComplexCall ==
    /\ lastResult.op \in {"to_odata", "from_odata"}
    /\ lastResult.traits = "EdmComplexTypTraits"
    /\ ~lastResult.edm_type.isNone

\* C14: encoding or decoding a mapping M with the traits of a type whose
\* properties are P returns a mapping whose keys are exactly the names of P that
\* are keys of M, each value being what the traits of that property's type make
\* of M's value; keys of M that P does not declare are dropped and properties
\* that M lacks are omitted.  The call raises only what one of these traits
\* raises.
C14_ComplexCodec ==
    ComplexCall =>
        LET props == lastResult.edm_type.props
            M == lastResult.input
            keys == DOMAIN props \cap DOMAIN M
        IN  IF lastResult.exc = "None"
            THEN /\ DOMAIN lastResult.value = keys
                 /\ \A n \in keys :
                        ApplyTraits(lastResult.op, props[n], M[n])
                            = Returns(lastResult.value[n])
            ELSE \E n \in keys :
                     ApplyTraits(lastResult.op, props[n], M[n]).exc = lastResult.exc

\* C14 witness: a mapping with p and the undeclared z was encoded with a type
\* that declares p and q, and the result has the key p alone.
C14_Witness ==
    /\ ComplexCall
    /\ lastResult.op = "to_odata"
    /\ DOMAIN lastResult.edm_type.props = {"p", "q"}
    /\ DOMAIN lastResult.input = {"p", "z"}
    /\ lastResult.exc = "None"
    /\ DOMAIN lastResult.value = {"p"}

\* text is an integer literal: whitespace, an optional sign, digits, whitespace
NumericText(text) ==
    \E a, b \in DOMAIN text :
        /\ a <= b
        /\ \A k \in DOMAIN text : (k < a \/ k > b) => text[k] \in Whitespace
        /\ \A k \in (a + 1)..b : text[k] \in DOMAIN DigitValue
        /\ \/ text[a] \in DOMAIN DigitValue
           \/ text[a] \in {"-", "+"} /\ a < b

\* text matches ^prefix'(.*)'$ : the prefix, a quote, characters of one line,
\* a quote, and the end of the text or the newline that ends the text
PrefixedForm(prefix, text) ==
    \E inner \in SeqUpTo(WireChars \ {"\n"}, MaxWire), end \in {<<>>, <<"\n">>} :
        text = <<prefix, "'">> \o inner \o <<"'">> \o end

\* C15: the Boolean, integer and prefixed-literal traits decode what they
\* encoded to the value that was encoded (a bool, an int, a text of one line),
\* and decoding fails with ValueError on a text that is no integer literal and
\* with RuntimeError on a text that is not of the form prefix'...'; texts of
\* these forms are decoded.
C15_RoundTrip ==
    /\ (\/ TraitsCall("to_odata", "EdmBooleanTypTraits") /\ lastResult.input.kind = "bool"
        \/ TraitsCall("to_odata", "EdmIntTypTraits") /\ lastResult.input.kind = "int"
        \/ TraitsCall("to_odata", "EdmPrefixedTypTraits") /\ lastResult.input.kind = "str")
           => /\ lastResult.exc = "None"
              /\ FromOdata(lastResult.traits, lastResult.value) = Returns(lastResult.input)
    /\ TraitsCall("from_odata", "EdmIntTypTraits") =>
           IF NumericText(lastResult.input.chars)
           THEN lastResult.exc = "None" ELSE lastResult.exc = "ValueError"
    /\ TraitsCall("from_odata", "EdmPrefixedTypTraits") =>
           IF PrefixedForm(GuidPrefix, lastResult.input.chars)
           THEN lastResult.exc = "None" ELSE lastResult.exc = "RuntimeError"

\* C15 witness: a negative integer of two digits was encoded as a sign and two
\* digits, which decode to it.
C15_Witness ==
    /\ TraitsCall("to_odata", "EdmIntTypTraits")
    /\ lastResult.input = IntValue(0 - MaxInt)
    /\ lastResult.exc = "None"
    /\ Len(lastResult.value.chars) = 3
    /\ lastResult.value.chars[1] = "-"
    /\ FromOdata("EdmIntTypTraits", lastResult.value) = Returns(lastResult.input)

\* C16 as stated: the String traits decode a wire text by taking one quote off
\* its start and one off its end, so that every encoded str decodes to itself.
C16_StringRoundTrip ==
    /\ (TraitsCall("to_odata", "EdmStringTypTraits") /\ lastResult.input.kind = "str")
           => FromOdata("EdmStringTypTraits", lastResult.value) = Returns(lastResult.input)
    /\ (/\ TraitsCall("from_odata", "EdmStringTypTraits")
        /\ Len(lastResult.input.chars) >= 2
        /\ lastResult.input.chars[1] = "'"
        /\ lastResult.input.chars[Len(lastResult.input.chars)] = "'")
           => lastResult.value =
                  Str(SubSeq(lastResult.input.chars, 2, Len(lastResult.input.chars) - 1))

\* ---------------------------------------------------------------- C17

\* C17 as stated: when from_name fails because the key it looked for is absent,
\* the error reports the name as the caller gave it, the whole collection(...)
\* text for a request of that form.
C17_ReportsRequestedName ==
    (lastResult.op = "from_name" /\ lastResult.exc = "PyODataException") =>
        lastResult.reported = lastResult.name

\* ---------------------------------------------------------------- C18

\* the names of the Property elements
DeclaredNames(properties) == {properties[i].name : i \in DOMAIN properties}

\* a sap:text of the Property elements names no property of theirs and has no '/'
HasUnresolvedLocalText(properties) ==
    \E i \in DOMAIN properties :
        /\ properties[i].text # None
        /\ properties[i].text \notin DeclaredNames(properties)
        /\ ~HasSlash(properties[i].text)

\* C18: when the owning entity type is assigned, a declared sap:text name is
\* resolved against it: a name of one of its properties makes text_proprty that
\* property; a name of none of them fails the assignment, and the build, with
\* RuntimeError unless the name holds a '/', in which case text_proprty stays
\* unset.  A property with no sap:text has no text_proprty.
C18_TextPropertyResolved ==
    /\ \A e \in DOMAIN etypes : \A n \in DOMAIN etypes[e].properties :
           LET p == etypes[e].properties[n]
           IN  /\ p.entity_type = e
               /\ IF p.text_proprty_name # None
                       /\ p.text_proprty_name \in DOMAIN etypes[e].properties
                  THEN p.text_proprty = PropRef(e, p.text_proprty_name)
                  ELSE /\ p.text_proprty = NoProp
                       /\ p.text_proprty_name # None => HasSlash(p.text_proprty_name)
    /\ FailedAt("EntityType") =>
           /\ lastResult.at = "entity_type.setter" <=>
                  /\ \A i \in DOMAIN lastResult.properties :
                         Constructs(lastResult.properties[i])
                  /\ ~HasDuplicate(lastResult.properties)
                  /\ HasUnresolvedLocalText(lastResult.properties)
           /\ lastResult.at = "entity_type.setter" => lastResult.exc = "RuntimeError"

\* C18 witness: an entity type was built whose property p has the property q as
\* its text property, and the build then failed on an entity type with a
\* sap:text that names none of its properties.
C18_Witness ==
    /\ FailedAt("EntityType")
    /\ lastResult.at = "entity_type.setter"
    /\ lastResult.exc = "RuntimeError"
    /\ \E e \in DOMAIN etypes :
           /\ DOMAIN etypes[e].properties = {"p", "q"}
           /\ etypes[e].properties["p"].text_proprty = PropRef(e, "q")

\* ---------------------------------------------------------- C19, C20

\* what a VariableDeclaration made of the attributes of its element
Declared(element, declaration) ==
    [Nullable |-> element.nullable, MaxLength |-> element.max_length,
     nullable |-> declaration.nullable, max_length |-> declaration.max_length]

\* the properties of the stored entity types and the parameters of the stored
\* function imports, each with the attributes it was declared with
VariableDeclarations ==
    UNION {{Declared(etypes[e].node.properties[i],
                     etypes[e].properties[etypes[e].node.properties[i].name]) :
                i \in DOMAIN etypes[e].node.properties} : e \in DOMAIN etypes}
    \cup
    UNION {UNION {{Declared(decls[ns].function_imports[f].parameters[x].node,
                            decls[ns].function_imports[f].parameters[x]) :
                       x \in DOMAIN decls[ns].function_imports[f].parameters} :
                  f \in DOMAIN decls[ns].function_imports} : ns \in DOMAIN decls}

\* C19 as stated: the max_length of every property and parameter that was
\* constructed is None when MaxLength is absent, the sentinel MAXIMUM_LENGTH when
\* MaxLength is MAX in any letter case, and otherwise a positive integer, never
\* zero, a negative number or the sentinel.
C19_MaxLengthRange ==
    \A d \in VariableDeclarations :
        IF d.MaxLength = NoText THEN d.max_length = NoLength
        ELSE IF Upper(d.MaxLength) = <<"M", "A", "X">>
        THEN d.max_length = Length(MAXIMUM_LENGTH)
        ELSE /\ d.max_length.kind = "int"
             /\ d.max_length.value > 0
             /\ d.max_length # Length(MAXIMUM_LENGTH)

\* C20 as stated: the nullable flag of every property and parameter that was
\* built is False when it was declared with Nullable="false" and True when it
\* was declared with Nullable="true".
C20_NullableReflectsAttribute ==
    \A d \in VariableDeclarations :
        /\ d.Nullable = <<"false">> => d.nullable = FALSE
        /\ d.Nullable = <<"true">> => d.nullable = TRUE

\* ---------------------------------------------------------------- C21

\* both threads have returned from their operation
AllReturned == \A t \in Threads : threads.frames[t].at = "done"

\* the names of the primitives and of their collection variants
BuiltinNames ==
    {PrimitiveTypes[i].name : i \in DOMAIN PrimitiveTypes}
        \cup {CollectionName(PrimitiveTypes[i].name) : i \in DOMAIN PrimitiveTypes}

\* C21 as stated: when two threads each perform their first repository
\* operation at the same time, no lookup of a built-in name fails with the
\* unknown-type error, and once both have returned the sixteen primitives and
\* their collection variants are registered, by one run of the seeding alone.
C21_ConcurrentFirstUse ==
    /\ \A t \in Threads :
           (/\ threads.frames[t].op = "from_name"
            /\ threads.frames[t].at = "done"
            /\ SearchName(threads.frames[t].name) \in BuiltinNames)
               => threads.frames[t].exc # "PyODataException"
    /\ AllReturned =>
           /\ Types.gen = 1
           /\ \A i \in DOMAIN PrimitiveTypes :
                  /\ PrimitiveTypes[i].name \in DOMAIN Types.tab
                  /\ Types.tab[PrimitiveTypes[i].name] = PrimitiveOf(1, i)
                  /\ CollectionName(PrimitiveTypes[i].name) \in DOMAIN Types.tab
                  /\ Types.tab[CollectionName(PrimitiveTypes[i].name)] =
                         Collection(PrimitiveTypes[i].name, PrimitiveOf(1, i))

====
